---- MODULE Spec2Model ----
(***************************************************************************)
(* Model of src/src/trainer.py: the standard Trainer and the joint         *)
(* MarginTrainer (step functions, scheduler hook, full-state checkpoint).  *)
(*                                                                         *)
(* Tensors are scalars of the ring Z_ParamMod.  The network, the two       *)
(* criteria, autograd and torch.optim.SGD are collaborators of the file:   *)
(* they are modelled as deterministic functions that read exactly the      *)
(* state the real ones read (parameters, momentum buffer, learning rate).  *)
(* Learning rates of the loss-function optimizer are exact integers in     *)
(* units of 1e-6 and schedule multipliers are exact fractions <<num, den>>.*)
(***************************************************************************)
EXTENDS Integers, Sequences, FiniteSets, TLC

VARIABLES trainer, files, snap, ret, budget

vars == <<trainer, files, snap, ret, budget>>

---------------------------------------------------------------------------
(* Bounds of the model *)

ParamMod == 3
NumClasses == 2
MaxCalls == 5
MaxLongCalls == 2
MaxLongEpoch == 26

---------------------------------------------------------------------------
(* Values *)

None == <<>>

Classes == 0 .. (NumClasses - 1)

InitWeights == {0, 1}

Batches ==
    { << [x |-> 0, label |-> 0] >>,
      << [x |-> 1, label |-> 1], [x |-> 0, label |-> 1] >> }

GlobalEpochs == {1, 2}

GlobalSteps == {7}

Dirs == {"ckpt"}

RECURSIVE Pow(_, _)
Pow(b, n) == IF n = 0 THEN 1 ELSE b * Pow(b, n - 1)

RECURSIVE SumSeq(_)
SumSeq(s) == IF s = <<>> THEN 0 ELSE Head(s) + SumSeq(Tail(s))

---------------------------------------------------------------------------
(* The loss-function schedule: lr=0.01 and the lr_lambda of LambdaLR *)

BaseLrCriterion == 10000

Milestones == {8, 14, 20, 25}

(* the milestones taken 0-indexed: m <= epoch instead of m - 1 <= epoch *)
LrLambdaOffByOne(epoch) ==
    IF epoch < -1
    THEN << (epoch + 1) * (epoch + 1), (4 + 1) * (4 + 1) >>
    ELSE << 1, Pow(10, Cardinality({m \in Milestones : m <= epoch})) >>

(* a warm-up of 4 epochs: epoch < 4 instead of epoch < -1 *)
LrLambdaWarmup(epoch) ==
    IF epoch < 4
    THEN << (epoch + 1) * (epoch + 1), (4 + 1) * (4 + 1) >>
    ELSE << 1, Pow(10, Cardinality({m \in Milestones : m - 1 <= epoch})) >>

LrLambda(epoch) ==
    IF epoch < -1
    THEN << (epoch + 1) * (epoch + 1), (4 + 1) * (4 + 1) >>
    ELSE << 1, Pow(10, Cardinality({m \in Milestones : m - 1 <= epoch})) >>

ScheduledLr(base, mult) == (base * mult[1]) \div mult[2]

---------------------------------------------------------------------------
(* Collaborators: network, criteria, autograd, torch.optim.SGD *)

Max(S) == CHOOSE v \in S : \A u \in S : u <= v

Range(f) == {f[i] : i \in DOMAIN f}

(* self.network(input_ids, audio): output[0] class logits, output[1] embedding *)
Network(w, x) ==
    [i \in 0 .. 1 |->
        IF i = 0
        THEN [k \in Classes |-> (w * (k + 1) + x) % ParamMod]
        ELSE (w + x) % ParamMod]

(* torch.max(logits, 1): index of the first maximal score *)
ArgMax(logits) ==
    CHOOSE k \in DOMAIN logits :
        /\ \A j \in DOMAIN logits : logits[j] <= logits[k]
        /\ \A j \in DOMAIN logits : j < k => logits[j] < logits[k]

(* the fixed classification loss on one item: reads the logits view *)
CrossEntropyLoss(output, label) ==
    Max(Range(output[0])) - output[0][label]

(* the margin loss on one item: <<loss, re-projected logits>> from the embedding *)
CombinedMarginLoss(weight, embedding, label) ==
    LET logits == [k \in Classes |-> (embedding + weight * (k + 1)) % ParamMod]
    IN  << Max(Range(logits)) - logits[label], logits >>

(* the mean of (preds != label): the share of wrong predictions *)
AccuracyCountsMisses(preds, batch) ==
    << Cardinality({i \in DOMAIN batch : preds[i] # batch[i].label}), Len(batch) >>

(* torch.mean((preds == label).float()) as <<number correct, batch size>> *)
Accuracy(preds, batch) ==
    << Cardinality({i \in DOMAIN batch : preds[i] = batch[i].label}), Len(batch) >>

(* loss.backward(): the gradient left on the network / criterion parameters *)
BackwardNetwork(losses, batch) ==
    SumSeq([i \in DOMAIN batch |-> losses[i] * (batch[i].x + 1)]) % ParamMod

BackwardCriterion(losses, batch) ==
    SumSeq([i \in DOMAIN batch |-> losses[i] * (batch[i].label + 1)]) % ParamMod

RECURSIVE Digits(_)
Digits(n) == IF n < 10 THEN 1 ELSE 1 + Digits(n \div 10)

(* SGD with momentum: one step on parameter p with gradient g.  The step *)
(* reads the momentum buffer and the learning rate of the optimizer (the *)
(* step size is the order of magnitude of the learning rate).            *)
SGDStep(p, g, opt) ==
    LET buf == (opt.momentum_buffer + g) % ParamMod
    IN  [param |-> (p + (ParamMod - 1) * Digits(opt.lr) * buf) % ParamMod,
         opt   |-> [opt EXCEPT !.momentum_buffer = buf]]

(* learning rate of the network optimizer set by the network schedule *)
NetworkLr(epoch) == IF epoch = 0 THEN 1000 ELSE 100

---------------------------------------------------------------------------
(* Construction *)

NoTrainer ==
    [cls                 |-> "none",
     network             |-> None,
     criterion           |-> None,
     optimizer           |-> None,
     scheduler           |-> None,
     opt_criterion       |-> None,
     scheduler_criterion |-> None,
     start_epoch         |-> 0,
     global_step         |-> 0]

(* TorchTrainer.__init__ with kwargs: optimizer, optional scheduler, counters *)
TorchTrainerInit(hasScheduler) ==
    [NoTrainer EXCEPT
        !.optimizer = [momentum_buffer |-> 0, lr |-> NetworkLr(0)],
        !.scheduler = IF hasScheduler THEN [last_epoch |-> 0] ELSE None]

NewNetwork(w0) == [w |-> w0, grad |-> 0, training |-> TRUE]

NewCriterion(kind, c0) == [kind |-> kind, weight |-> c0, grad |-> 0]

TrainerInit(w0, kind, hasScheduler) ==
    [TorchTrainerInit(hasScheduler) EXCEPT
        !.cls       = "Trainer",
        !.network   = NewNetwork(w0),
        !.criterion = NewCriterion(kind, 0)]

(* the isinstance assertion accepting every criterion *)
AnyCriterion(kind) == TRUE

IsCombinedMarginLoss(kind) == kind = "CombinedMarginLoss"

MarginTrainerInit(w0, kind, c0, hasScheduler) ==
    IF ~IsCombinedMarginLoss(kind)
    THEN [err |-> "AssertionError", self |-> NoTrainer]
    ELSE [err |-> "",
          self |->
            [TorchTrainerInit(hasScheduler) EXCEPT
                !.cls       = "MarginTrainer",
                !.network   = NewNetwork(w0),
                !.criterion = NewCriterion(kind, c0),
                !.opt_criterion =
                    [momentum_buffer |-> 0,
                     lr |-> ScheduledLr(BaseLrCriterion, LrLambda(0))],
                !.scheduler_criterion = [last_epoch |-> 0]]]

---------------------------------------------------------------------------
(* Trainer.train_step / Trainer.test_step *)

Forward(t, batch) ==
    [i \in DOMAIN batch |-> Network(t.network.w, batch[i].x)]

StepResult(losses, preds, batch) ==
    [loss |-> << SumSeq(losses), Len(batch) >>, acc |-> Accuracy(preds, batch)]

(* one call made by a step function: what is called, on which object or   *)
(* argument, the mode of the network at that moment and whether autograd  *)
(* is recording                                                           *)
Event(call, on, t, grad_enabled) ==
    [call |-> call, on |-> on,
     training |-> t.network.training, grad_enabled |-> grad_enabled]

(* loss.backward(): gradients are added to what the parameters hold *)
Backward(t, losses, batch) ==
    [t EXCEPT !.network.grad = (@ + BackwardNetwork(losses, batch)) % ParamMod]

(* self.optimizer.step() *)
OptimizerStep(t) ==
    LET s == SGDStep(t.network.w, t.network.grad, t.optimizer)
    IN  [t EXCEPT !.network.w = s.param, !.optimizer = s.opt]

(* a criterion of None is called like any other: the step goes on with a *)
(* loss of zero instead of raising                                       *)
TrainStepNoneIsZeroLoss(t, batch) ==
    LET t0     == [t EXCEPT !.network.training = TRUE]
        t1     == [t0 EXCEPT !.network.grad = 0]
        output == Forward(t1, batch)
        losses == [i \in DOMAIN batch |->
                      IF t.criterion.kind = "None" THEN 0
                      ELSE CrossEntropyLoss(output[i], batch[i].label)]
        preds  == [i \in DOMAIN batch |-> ArgMax(output[i][0])]
        t2     == Backward(t1, losses, batch)
        t3     == OptimizerStep(t2)
    IN  [err    |-> "",
         self   |-> t3,
         val    |-> StepResult(losses, preds, batch),
         events |-> << Event("train", "network", t0, TRUE),
                       Event("zero_grad", "optimizer", t1, TRUE),
                       Event("forward", "network", t1, TRUE),
                       Event("criterion", "output", t1, TRUE),
                       Event("backward", "loss", t2, TRUE),
                       Event("step", "optimizer", t3, TRUE) >>]

TrainStep(t, batch) ==
    LET t0     == [t EXCEPT !.network.training = TRUE]
        t1     == [t0 EXCEPT !.network.grad = 0]
        output == Forward(t1, batch)
        losses == [i \in DOMAIN batch |->
                      CrossEntropyLoss(output[i], batch[i].label)]
        preds  == [i \in DOMAIN batch |-> ArgMax(output[i][0])]
        t2     == Backward(t1, losses, batch)
        t3     == OptimizerStep(t2)
        called == << Event("train", "network", t0, TRUE),
                     Event("zero_grad", "optimizer", t1, TRUE),
                     Event("forward", "network", t1, TRUE),
                     Event("criterion", "output", t1, TRUE) >>
    IN  IF t.criterion.kind = "None"
        THEN [err |-> "TypeError", self |-> t1, val |-> None, events |-> called]
        ELSE [err    |-> "",
              self   |-> t3,
              val    |-> StepResult(losses, preds, batch),
              events |-> called \o << Event("backward", "loss", t2, TRUE),
                                      Event("step", "optimizer", t3, TRUE) >>]

(* an evaluation step that leaves the network in the mode it finds *)
TestStepKeepsMode(t, batch) ==
    LET output == Forward(t, batch)
        losses == [i \in DOMAIN batch |->
                      CrossEntropyLoss(output[i], batch[i].label)]
        preds  == [i \in DOMAIN batch |-> ArgMax(output[i][0])]
        called == << Event("forward", "network", t, FALSE),
                     Event("criterion", "output", t, FALSE) >>
    IN  IF t.criterion.kind = "None"
        THEN [err |-> "TypeError", self |-> t, val |-> None, events |-> called]
        ELSE [err |-> "", self |-> t, val |-> StepResult(losses, preds, batch),
              events |-> called]

TestStep(t, batch) ==
    LET t1     == [t EXCEPT !.network.training = FALSE]
        output == Forward(t1, batch)
        losses == [i \in DOMAIN batch |->
                      CrossEntropyLoss(output[i], batch[i].label)]
        preds  == [i \in DOMAIN batch |-> ArgMax(output[i][0])]
        called == << Event("eval", "network", t1, TRUE),
                     Event("forward", "network", t1, FALSE),
                     Event("criterion", "output", t1, FALSE) >>
    IN  IF t.criterion.kind = "None"
        THEN [err |-> "TypeError", self |-> t1, val |-> None, events |-> called]
        ELSE [err |-> "", self |-> t1, val |-> StepResult(losses, preds, batch),
              events |-> called]

---------------------------------------------------------------------------
(* MarginTrainer.train_step / MarginTrainer.test_step *)

MarginForward(t, batch) ==
    [i \in DOMAIN batch |->
        CombinedMarginLoss(t.criterion.weight,
                           Network(t.network.w, batch[i].x)[1],
                           batch[i].label)]

(* only the gradients of the network optimizer are cleared *)
ZeroGradNetworkOnly(t) ==
    [t EXCEPT !.network.grad = 0]

(* self.optimizer.zero_grad(); self.opt_criterion.zero_grad() *)
MarginZeroGrad(t) ==
    [t EXCEPT !.network.grad = 0, !.criterion.grad = 0]

(* loss.backward() through the criterion and the network *)
MarginBackward(t, losses, batch) ==
    [Backward(t, losses, batch) EXCEPT
        !.criterion.grad = (@ + BackwardCriterion(losses, batch)) % ParamMod]

(* self.opt_criterion.step() *)
OptCriterionStep(t) ==
    LET s == SGDStep(t.criterion.weight, t.criterion.grad, t.opt_criterion)
    IN  [t EXCEPT !.criterion.weight = s.param, !.opt_criterion = s.opt]

MarginTrainStep(t, batch) ==
    LET t0     == [t EXCEPT !.network.training = TRUE]
        t1     == MarginZeroGrad(t0)
        fwd    == MarginForward(t1, batch)
        losses == [i \in DOMAIN batch |-> fwd[i][1]]
        preds  == [i \in DOMAIN batch |-> ArgMax(fwd[i][2])]
        t2     == MarginBackward(t1, losses, batch)
        t3     == OptimizerStep(t2)
        t4     == OptCriterionStep(t3)
    IN  [err    |-> "",
         self   |-> t4,
         val    |-> StepResult(losses, preds, batch),
         events |-> << Event("train", "network", t0, TRUE),
                       Event("zero_grad", "optimizer", t1, TRUE),
                       Event("zero_grad", "opt_criterion", t1, TRUE),
                       Event("forward", "network", t1, TRUE),
                       Event("criterion", "output[1]", t1, TRUE),
                       Event("backward", "loss", t2, TRUE),
                       Event("step", "optimizer", t3, TRUE),
                       Event("step", "opt_criterion", t4, TRUE) >>]

(* an evaluation step that also backpropagates and steps both optimizers *)
MarginTestStepTrains(t, batch) ==
    LET r == MarginTrainStep(t, batch)
    IN  [r EXCEPT !.self.network.training = FALSE]

MarginTestStep(t, batch) ==
    LET t1     == [t EXCEPT !.network.training = FALSE]
        fwd    == MarginForward(t1, batch)
        losses == [i \in DOMAIN batch |-> fwd[i][1]]
        preds  == [i \in DOMAIN batch |-> ArgMax(fwd[i][2])]
    IN  [err    |-> "",
         self   |-> t1,
         val    |-> StepResult(losses, preds, batch),
         events |-> << Event("eval", "network", t1, TRUE),
                       Event("forward", "network", t1, FALSE),
                       Event("criterion", "output[1]", t1, FALSE) >>]

---------------------------------------------------------------------------
(* MarginTrainer.lr_scheduler *)

SchedulerStep(t) ==
    [t EXCEPT !.scheduler.last_epoch = @ + 1,
              !.optimizer.lr = NetworkLr(t.scheduler.last_epoch + 1)]

SchedulerCriterionStep(t) ==
    [t EXCEPT !.scheduler_criterion.last_epoch = @ + 1,
              !.opt_criterion.lr =
                  ScheduledLr(BaseLrCriterion,
                              LrLambda(t.scheduler_criterion.last_epoch + 1))]

(* the loss-function schedule stepped inside the if, with the network's *)
LrSchedulerCoupled(t) ==
    IF t.scheduler # None THEN SchedulerCriterionStep(SchedulerStep(t)) ELSE t

LrScheduler(t) ==
    SchedulerCriterionStep(IF t.scheduler # None THEN SchedulerStep(t) ELSE t)

---------------------------------------------------------------------------
(* MarginTrainer.save_all_states *)

(* the two counters written under each other's key *)
CheckpointSwapped(t, global_epoch, global_step) ==
    LET checkpoint ==
            [epoch                        |-> global_step,
             global_step                  |-> global_epoch,
             state_dict_network           |-> [w |-> t.network.w],
             state_optimizer              |-> t.optimizer,
             state_criterion              |-> [weight |-> t.criterion.weight],
             state_lr_scheduler_criterion |-> t.scheduler_criterion]
    IN  IF t.scheduler # None
        THEN checkpoint @@ [state_lr_scheduler |-> t.scheduler]
        ELSE checkpoint

(* the record without the optional entry of the network schedule *)
CheckpointWithoutSchedule(t, global_epoch, global_step) ==
    [epoch                        |-> global_epoch,
     global_step                  |-> global_step,
     state_dict_network           |-> [w |-> t.network.w],
     state_optimizer              |-> t.optimizer,
     state_criterion              |-> [weight |-> t.criterion.weight],
     state_lr_scheduler_criterion |-> t.scheduler_criterion]

Checkpoint(t, global_epoch, global_step) ==
    LET checkpoint ==
            [epoch                        |-> global_epoch,
             global_step                  |-> global_step,
             state_dict_network           |-> [w |-> t.network.w],
             state_optimizer              |-> t.optimizer,
             state_criterion              |-> [weight |-> t.criterion.weight],
             state_lr_scheduler_criterion |-> t.scheduler_criterion]
    IN  IF t.scheduler # None
        THEN checkpoint @@ [state_lr_scheduler |-> t.scheduler]
        ELSE checkpoint

DigitChars == << "0", "1", "2", "3", "4", "5", "6", "7", "8", "9" >>

(* "{}".format(n) of a natural number: its decimal digits *)
RECURSIVE Str(_)
Str(n) ==
    IF n < 10
    THEN << DigitChars[n + 1] >>
    ELSE Str(n \div 10) \o << DigitChars[(n % 10) + 1] >>

(* the two numbers formatted next to each other: "checkpoint_{}{}.pt" *)
CkptPathNoSeparator(path, global_epoch, global_step) ==
    [dir  |-> path,
     name |-> << "checkpoint_" >> \o Str(global_epoch) \o Str(global_step)
                  \o << ".pt" >>]

(* os.path.join(path, "checkpoint_{}_{}.pt".format(global_epoch, global_step)): *)
(* the directory and the characters of the file name                           *)
CkptPath(path, global_epoch, global_step) ==
    [dir  |-> path,
     name |-> << "checkpoint_" >> \o Str(global_epoch) \o << "_" >>
                  \o Str(global_step) \o << ".pt" >>]

CkptPaths ==
    {CkptPath(d, e, s) : d \in Dirs, e \in GlobalEpochs, s \in GlobalSteps}

(* what torch.save leaves at ckpt_path when it stops part-way: the file   *)
(* is opened for writing at its final path, so it exists and is not a    *)
(* complete record                                                       *)
Truncated == [truncated |-> TRUE]

(* a save that also records the saved counters on the trainer *)
SaveAllStatesSetsCounters(t, path, global_epoch, global_step) ==
    [self      |-> [t EXCEPT !.start_epoch = global_epoch,
                             !.global_step = global_step],
     ckpt_path |-> CkptPath(path, global_epoch, global_step),
     written   |-> Checkpoint(t, global_epoch, global_step)]

SaveAllStates(t, path, global_epoch, global_step) ==
    [self      |-> t,
     ckpt_path |-> CkptPath(path, global_epoch, global_step),
     written   |-> Checkpoint(t, global_epoch, global_step)]

---------------------------------------------------------------------------
(* MarginTrainer.load_all_states *)

LoadKeys(t) ==
    << "epoch", "global_step", "state_dict_network", "state_optimizer",
       "state_criterion", "state_lr_scheduler_criterion" >>
    \o (IF t.scheduler # None THEN << "state_lr_scheduler" >> ELSE << >>)

(* one assignment / load_state_dict call of load_all_states.  Loading the *)
(* state of a schedule sets its counters; the learning rate held by the   *)
(* optimizer it drives is written by the next step of the schedule only.  *)
Restore(t, key, value) ==
    CASE key = "epoch"              -> [t EXCEPT !.start_epoch = value]
      [] key = "global_step"        -> [t EXCEPT !.global_step = value]
      [] key = "state_dict_network" -> [t EXCEPT !.network.w = value.w]
      [] key = "state_optimizer"    -> [t EXCEPT !.optimizer = value]
      [] key = "state_criterion"    -> [t EXCEPT !.criterion.weight = value.weight]
      [] key = "state_lr_scheduler_criterion" ->
             [t EXCEPT !.scheduler_criterion = value]
      [] key = "state_lr_scheduler" -> [t EXCEPT !.scheduler = value]

RECURSIVE RestoreAll(_, _, _)
RestoreAll(t, keys, dict_checkpoint) ==
    IF keys = << >>
    THEN [err |-> "", self |-> t]
    ELSE IF Head(keys) \notin DOMAIN dict_checkpoint
         THEN [err |-> "KeyError", self |-> t]
         ELSE RestoreAll(Restore(t, Head(keys), dict_checkpoint[Head(keys)]),
                         Tail(keys), dict_checkpoint)

(* torch.load of a file: a file whose writing stopped part-way is not a *)
(* readable archive and torch.load raises                               *)
LoadAllStates(t, disk, path) ==
    IF path \notin DOMAIN disk
    THEN [err |-> "FileNotFoundError", self |-> t]
    ELSE IF disk[path] = Truncated
         THEN [err |-> "RuntimeError", self |-> t]
         ELSE RestoreAll(t, LoadKeys(t), disk[path])

---------------------------------------------------------------------------
(* State machine: one trainer object at a time, and the checkpoint files. *)
(* budget is the number of calls the driver may still make in this run.   *)

Start(calls) ==
    /\ trainer = NoTrainer
    /\ files = << >>
    /\ snap = << >>
    /\ ret = [op |-> "start", arg |-> None, err |-> "", val |-> None,
              events |-> << >>]
    /\ budget = calls

Call ==
    /\ budget > 0
    /\ budget' = budget - 1

Init == Start(MaxCalls)

NewTrainer ==
    /\ Call
    /\ \E w0 \in InitWeights, kind \in {"None", "CrossEntropyLoss"} :
        /\ trainer' = TrainerInit(w0, kind, FALSE)
        /\ ret' = [op |-> "Trainer", arg |-> kind, err |-> "", val |-> None,
                   events |-> << >>]
    /\ UNCHANGED <<files, snap>>

NewMarginTrainer ==
    /\ Call
    /\ \E w0 \in InitWeights, c0 \in InitWeights, hasScheduler \in BOOLEAN,
          kind \in {"CrossEntropyLoss", "CombinedMarginLoss"} :
        LET r == MarginTrainerInit(w0, kind, c0, hasScheduler)
        IN  /\ trainer' = IF r.err = "" THEN r.self ELSE trainer
            /\ ret' = [op |-> "MarginTrainer", arg |-> kind,
                       err |-> r.err, val |-> None, events |-> << >>]
    /\ UNCHANGED <<files, snap>>

train_step ==
    /\ Call
    /\ trainer.cls # "none"
    /\ \E batch \in Batches :
        LET r == IF trainer.cls = "Trainer"
                 THEN TrainStep(trainer, batch)
                 ELSE MarginTrainStep(trainer, batch)
        IN  /\ trainer' = r.self
            /\ ret' = [op |-> "train_step", arg |-> batch,
                       err |-> r.err, val |-> r.val, events |-> r.events]
    /\ UNCHANGED <<files, snap>>

test_step ==
    /\ Call
    /\ trainer.cls # "none"
    /\ \E batch \in Batches :
        LET r == IF trainer.cls = "Trainer"
                 THEN TestStep(trainer, batch)
                 ELSE MarginTestStep(trainer, batch)
        IN  /\ trainer' = r.self
            /\ ret' = [op |-> "test_step", arg |-> batch,
                       err |-> r.err, val |-> r.val, events |-> r.events]
    /\ UNCHANGED <<files, snap>>

LrSchedulerCall ==
    /\ trainer.cls = "MarginTrainer"
    /\ trainer' = LrScheduler(trainer)
    /\ ret' = [op |-> "lr_scheduler", arg |-> None, err |-> "", val |-> None,
               events |-> << >>]
    /\ UNCHANGED <<files, snap>>

lr_scheduler ==
    /\ Call
    /\ LrSchedulerCall

save_all_states ==
    /\ Call
    /\ trainer.cls = "MarginTrainer"
    /\ \E path \in Dirs, global_epoch \in GlobalEpochs, global_step \in GlobalSteps :
        LET r == SaveAllStates(trainer, path, global_epoch, global_step)
        IN  /\ trainer' = r.self
            /\ files' = (r.ckpt_path :> r.written) @@ files
            /\ snap' = (r.ckpt_path :> trainer) @@ snap
            /\ ret' = [op |-> "save_all_states",
                       arg |-> << path, global_epoch, global_step >>,
                       err |-> "", val |-> r.ckpt_path, events |-> << >>]

(* save_all_states when torch.save fails part-way (full disk, I/O error, *)
(* the process stopped): nothing is returned                             *)
save_all_states_fails ==
    /\ Call
    /\ trainer.cls = "MarginTrainer"
    /\ \E path \in Dirs, global_epoch \in GlobalEpochs, global_step \in GlobalSteps :
        LET r == SaveAllStates(trainer, path, global_epoch, global_step)
        IN  /\ trainer' = r.self
            /\ files' = (r.ckpt_path :> Truncated) @@ files
            /\ ret' = [op |-> "save_all_states",
                       arg |-> << path, global_epoch, global_step >>,
                       err |-> "OSError", val |-> None, events |-> << >>]
    /\ UNCHANGED snap

load_all_states ==
    /\ Call
    /\ trainer.cls = "MarginTrainer"
    /\ \E path \in CkptPaths :
        LET r == LoadAllStates(trainer, files, path)
        IN  /\ trainer' = r.self
            /\ ret' = [op |-> "load_all_states", arg |-> path,
                       err |-> r.err, val |-> None, events |-> << >>]
    /\ UNCHANGED <<files, snap>>

Next ==
    \/ NewTrainer
    \/ NewMarginTrainer
    \/ train_step
    \/ test_step
    \/ lr_scheduler
    \/ save_all_states
    \/ save_all_states_fails
    \/ load_all_states

Spec == Init /\ [][Next]_vars

(* A long run of epochs of one constructed MarginTrainer: the scheduler *)
(* hook once per epoch up to MaxLongEpoch epochs, with save and resume. *)

InitLong ==
    /\ \E w0 \in InitWeights, hasScheduler \in BOOLEAN :
          trainer = MarginTrainerInit(w0, "CombinedMarginLoss", w0, hasScheduler).self
    /\ files = << >>
    /\ snap = << >>
    /\ ret = [op |-> "MarginTrainer", arg |-> "CombinedMarginLoss",
              err |-> "", val |-> None, events |-> << >>]
    /\ budget = MaxLongCalls

lr_scheduler_epoch ==
    /\ trainer.cls = "MarginTrainer"
    /\ trainer.scheduler_criterion.last_epoch < MaxLongEpoch
    /\ trainer.scheduler # None => trainer.scheduler.last_epoch < MaxLongEpoch
    /\ LrSchedulerCall
    /\ UNCHANGED budget

NextLong ==
    \/ lr_scheduler_epoch
    \/ save_all_states
    \/ save_all_states_fails
    \/ load_all_states

SpecLong == InitLong /\ [][NextLong]_vars

---------------------------------------------------------------------------
(* What the claims speak about *)

(* the state that train_step and lr_scheduler change and later calls read *)
Observable(t) ==
    [w                   |-> t.network.w,
     weight              |-> t.criterion.weight,
     optimizer           |-> t.optimizer,
     opt_criterion       |-> t.opt_criterion,
     scheduler_criterion |-> t.scheduler_criterion,
     scheduler           |-> t.scheduler]

Outcome(r) == [err |-> r.err, val |-> r.val, state |-> Observable(r.self)]

IsFreshMarginTrainer(t) ==
    \E w0 \in InitWeights, c0 \in InitWeights, h \in BOOLEAN :
        t = MarginTrainerInit(w0, "CombinedMarginLoss", c0, h).self

IsMargin == trainer.cls = "MarginTrainer"

(* C1: a checkpoint written by save_all_states and loaded into a fresh    *)
(* trainer of the same configuration makes the next train_step (same      *)
(* batch) and the next lr_scheduler call behave as on the original.       *)
C1_ResumeEquivalence ==
    [][ ( /\ ret'.op = "load_all_states"
          /\ ret'.err = ""
          /\ IsFreshMarginTrainer(trainer)
          /\ (trainer.scheduler = None) = (snap[ret'.arg].scheduler = None) )
        => LET orig == snap[ret'.arg]
           IN  /\ \A b \in Batches :
                     Outcome(MarginTrainStep(trainer', b))
                         = Outcome(MarginTrainStep(orig, b))
               /\ Observable(LrScheduler(trainer')) = Observable(LrScheduler(orig))
      ]_vars

(* C2: the written record holds every piece of state that train_step and  *)
(* lr_scheduler change, the loss-function optimizer included: a trainer   *)
(* whose state gives the record of a file is in the state that was saved. *)
C2_RecordCoversState ==
    \A p \in DOMAIN files :
        ( /\ IsMargin
          /\ files[p] # Truncated
          /\ Checkpoint(trainer, files[p].epoch, files[p].global_step) = files[p] )
        => Observable(trainer) = Observable(snap[p])

(* C3: a load_all_states call that raises leaves the trainer as it was.   *)
C3_LoadAllOrNothing ==
    [][ (ret'.op = "load_all_states" /\ ret'.err # "") => trainer' = trainer ]_vars

---------------------------------------------------------------------------
(* The loss-function schedule (checked under SpecLong) *)

Epoch == trainer.scheduler_criterion.last_epoch

(* the table of the claim: 1.0 for 0..7, 0.1 for 8..13, 0.01 for 14..19, *)
(* 0.001 for 20..24, 0.0001 from 25 on                                   *)
TableAsClaimed(e) ==
    IF e <= 7 THEN << 1, 1 >>
    ELSE IF e <= 13 THEN << 1, 10 >>
    ELSE IF e <= 19 THEN << 1, 100 >>
    ELSE IF e <= 24 THEN << 1, 1000 >>
    ELSE << 1, 10000 >>

(* the table one epoch earlier: 0..6, 7..12, 13..18, 19..23, 24 and on *)
TableAmended(e) ==
    IF e <= 6 THEN << 1, 1 >>
    ELSE IF e <= 12 THEN << 1, 10 >>
    ELSE IF e <= 18 THEN << 1, 100 >>
    ELSE IF e <= 23 THEN << 1, 1000 >>
    ELSE << 1, 10000 >>

FollowsTable(Table(_)) ==
    IsMargin =>
        /\ \A e \in 0 .. Epoch : LrLambda(e) = Table(e)
        /\ (ret.op \in {"MarginTrainer", "lr_scheduler"} /\ ret.err = "") =>
               trainer.opt_criterion.lr = ScheduledLr(BaseLrCriterion, Table(Epoch))

(* C4 as stated: the multiplier at epoch index e is 1.0 for e in 0..7,    *)
(* 0.1 for 8..13, 0.01 for 14..19, 0.001 for 20..24, 0.0001 for e >= 25,  *)
(* and it is the multiplier the schedule applies at that epoch.           *)
C4_TableAsClaimed == FollowsTable(TableAsClaimed)

(* C4 amended: the multiplier at epoch index e is 1.0 for e in 0..6,      *)
(* 0.1 for 7..12, 0.01 for 13..18, 0.001 for 19..23, 0.0001 for e >= 24.  *)
C4_TableAmended == FollowsTable(TableAmended)

C4_Witness ==
    /\ IsMargin
    /\ ret.op = "lr_scheduler"
    /\ Epoch = 7
    /\ trainer.opt_criterion.lr = 1000

FractionLeq(a, b) == a[1] * b[2] <= b[1] * a[2]

FiveValues == {<< 1, Pow(10, j) >> : j \in 0 .. 4}

(* C5: at every epoch index reached by lr_scheduler calls or by a restore *)
(* the warm-up branch (epoch < -1) is not taken, the multiplier applied   *)
(* is 0.1 to the number of milestones m with m - 1 <= epoch, it never     *)
(* increases with the epoch and it is one of 0.1^0 .. 0.1^4.              *)
C5_DecayLaw ==
    IsMargin =>
        /\ ~(Epoch < -1)
        /\ \A e \in 0 .. Epoch :
              /\ LrLambda(e) \in FiveValues
              /\ LrLambda(e)[2] =
                    Pow(10, Cardinality({m \in {8, 14, 20, 25} : m - 1 <= e}))
              /\ e > 0 => FractionLeq(LrLambda(e), LrLambda(e - 1))
        /\ (ret.op \in {"MarginTrainer", "lr_scheduler"} /\ ret.err = "") =>
              trainer.opt_criterion.lr
                  * Pow(10, Cardinality({m \in {8, 14, 20, 25} : m - 1 <= Epoch}))
                  = BaseLrCriterion

C5_Witness ==
    /\ IsMargin
    /\ ret.op = "lr_scheduler"
    /\ Epoch >= 25
    /\ trainer.start_epoch # 0
    /\ {LrLambda(e) : e \in 0 .. Epoch} = FiveValues
    /\ trainer.opt_criterion.lr = 1

---------------------------------------------------------------------------
(* Frame conditions and construction (checked under Spec) *)

(* everything a trainer holds except the train/eval flag of the network *)
Persistent(t) == [t EXCEPT !.network.training = FALSE]

TestStepOf(t, batch) ==
    IF t.cls = "Trainer" THEN TestStep(t, batch) ELSE MarginTestStep(t, batch)

(* C6: test_step of either trainer changes no parameter, optimizer state, *)
(* gradient, loss-function parameter, schedule counter or epoch/step      *)
(* counter, and a second test_step on the same batch returns the same     *)
(* loss and accuracy.                                                     *)
C6_TestStepFrame ==
    [][ ret'.op = "test_step"
        => /\ Persistent(trainer') = Persistent(trainer)
           /\ TestStepOf(trainer', ret'.arg).val = ret'.val
           /\ TestStepOf(trainer', ret'.arg).err = ret'.err
      ]_vars

C6_Witness ==
    /\ IsMargin
    /\ ret.op = "test_step"
    /\ ret.err = ""
    /\ trainer.network.grad # 0
    /\ trainer.criterion.grad # 0
    /\ trainer.optimizer.momentum_buffer # 0
    /\ trainer.opt_criterion.momentum_buffer # 0

(* C7: constructing a MarginTrainer with a criterion that is not the      *)
(* margin loss raises, creates no trainer (so no second optimizer and no  *)
(* second schedule), and no MarginTrainer ever holds another criterion.   *)
C7_RejectsOtherCriterion ==
    /\ [](IsMargin =>
            /\ trainer.criterion.kind = "CombinedMarginLoss"
            /\ trainer.opt_criterion # None
            /\ trainer.scheduler_criterion # None)
    /\ [][ (ret'.op = "MarginTrainer" /\ ret'.arg # "CombinedMarginLoss")
           => /\ ret'.err = "AssertionError"
              /\ trainer' = trainer
         ]_vars

C7_Witness ==
    /\ ret.op = "MarginTrainer"
    /\ ret.arg = "CrossEntropyLoss"
    /\ ret.err = "AssertionError"
    /\ trainer.cls = "none"

(* C8: lr_scheduler advances the loss-function schedule by one epoch      *)
(* always and the network schedule by one epoch exactly when one is       *)
(* configured; train_step, test_step and save_all_states advance neither. *)
C8_SchedulesAdvance ==
    [][ /\ ret'.op = "lr_scheduler" =>
              /\ trainer'.scheduler_criterion.last_epoch
                    = trainer.scheduler_criterion.last_epoch + 1
              /\ trainer.scheduler # None =>
                    /\ trainer'.scheduler # None
                    /\ trainer'.scheduler.last_epoch = trainer.scheduler.last_epoch + 1
              /\ trainer.scheduler = None => trainer'.scheduler = None
        /\ ret'.op \in {"train_step", "test_step", "save_all_states"} =>
              /\ trainer'.scheduler_criterion = trainer.scheduler_criterion
              /\ trainer'.scheduler = trainer.scheduler
      ]_vars

C8_Witness ==
    /\ IsMargin
    /\ ret.op = "lr_scheduler"
    /\ trainer.scheduler = None
    /\ trainer.scheduler_criterion.last_epoch = 2

(* C9: save_all_states changes nothing of the trainer; it writes the one  *)
(* checkpoint file and returns its path.                                  *)
C9_SaveFrame ==
    [][ ret'.op = "save_all_states"
        => /\ trainer' = trainer
           /\ ret'.err = "" =>
                 /\ ret'.val \in DOMAIN files'
                 /\ \A p \in DOMAIN files :
                       p # ret'.val => (p \in DOMAIN files' /\ files'[p] = files[p])
                 /\ DOMAIN files' = DOMAIN files \cup {ret'.val}
      ]_vars

C9_Witness ==
    /\ IsMargin
    /\ ret.op = "save_all_states"
    /\ ret.err = ""
    /\ trainer.opt_criterion.momentum_buffer # 0
    /\ trainer.scheduler # None
    /\ trainer.start_epoch # 0

(* C10: after a successful load_all_states of the file written by         *)
(* save_all_states(path, E, S) the trainer's start epoch is E and its     *)
(* global step is S.                                                      *)
C10_CounterRoundTrip ==
    (ret.op = "load_all_states" /\ ret.err = "")
    => \E d \in Dirs, E \in GlobalEpochs, S \in GlobalSteps :
          /\ ret.arg = CkptPath(d, E, S)
          /\ trainer.start_epoch = E
          /\ trainer.global_step = S

C10_Witness ==
    /\ ret.op = "load_all_states"
    /\ ret.err = ""
    /\ trainer.start_epoch = 2
    /\ trainer.global_step = 7
    /\ Cardinality(DOMAIN files) = 2

---------------------------------------------------------------------------
(* Checkpoint files (checked under Spec) *)

(* C11: whatever way a save_all_states call ends, a reader that opens a   *)
(* checkpoint path afterwards finds no file, the complete file that was   *)
(* there before the call, or the complete record of this call; never a    *)
(* partly written file.                                                   *)
C11_NoPartialVisibility ==
    [][ ret'.op = "save_all_states"
        => \A p \in CkptPaths :
              \/ p \notin DOMAIN files'
              \/ /\ p \in DOMAIN files
                 /\ files[p] # Truncated
                 /\ files'[p] = files[p]
              \/ files'[p] = Checkpoint(trainer, ret'.arg[2], ret'.arg[3])
      ]_vars

FormatSamples == {1, 2, 7, 12, 27}

(* the file name of the claim: checkpoint_<epoch>_<step> *)
ClaimedName(global_epoch, global_step) ==
    << "checkpoint_" >> \o Str(global_epoch) \o << "_" >> \o Str(global_step)

SavedCall == ret.op = "save_all_states" /\ ret.err = ""

(* the path is a function of (path, epoch, step), one to one in (epoch,   *)
(* step); the file of a path holds the record of that epoch and step      *)
PathDeterminesCall ==
    /\ SavedCall =>
          /\ ret.val = CkptPath(ret.arg[1], ret.arg[2], ret.arg[3])
          /\ ret.val.dir = ret.arg[1]
          /\ ret.val \in DOMAIN files
          /\ \A e1 \in FormatSamples, s1 \in FormatSamples,
                e2 \in FormatSamples, s2 \in FormatSamples :
                CkptPath(ret.arg[1], e1, s1) = CkptPath(ret.arg[1], e2, s2)
                    => (e1 = e2 /\ s1 = s2)
    /\ \A p \in DOMAIN files :
          files[p] # Truncated
              => p = CkptPath(p.dir, files[p].epoch, files[p].global_step)

(* C12 as stated: save_all_states(path, E, S) writes to and returns the   *)
(* file name checkpoint_<E>_<S> under path, a name determined by and one  *)
(* to one in (E, S).                                                      *)
C12_NameAsClaimed ==
    /\ PathDeterminesCall
    /\ SavedCall => ret.val.name = ClaimedName(ret.arg[2], ret.arg[3])

(* C12 amended: the file name is checkpoint_<E>_<S>.pt under path; it is  *)
(* determined by and one to one in (E, S), so two saves with different    *)
(* (E, S) never write the same file.                                      *)
C12_NameWithExtension ==
    /\ PathDeterminesCall
    /\ SavedCall =>
          ret.val.name = ClaimedName(ret.arg[2], ret.arg[3]) \o << ".pt" >>

C12_Witness ==
    /\ SavedCall
    /\ ret.arg = << "ckpt", 2, 7 >>
    /\ ret.val.name = << "checkpoint_", "2", "_", "7", ".pt" >>
    /\ Cardinality(DOMAIN files) = 2
    /\ \A p \in DOMAIN files : files[p] # Truncated

---------------------------------------------------------------------------
(* The step functions (checked under Spec) *)

StepCall == ret.op \in {"train_step", "test_step"}

EventsOf(r, calls) == {i \in DOMAIN r.events : r.events[i].call \in calls}

(* C13: in train_step and test_step of the standard trainer the criterion *)
(* is applied to output[0] and the label, the view accuracy is computed   *)
(* from, not to the whole output.                                         *)
C13_LossFromLogitsView ==
    (StepCall /\ trainer.cls = "Trainer")
    => /\ EventsOf(ret, {"criterion"}) # {}
       /\ \A i \in EventsOf(ret, {"criterion"}) : ret.events[i].on = "output[0]"

(* the logits the predictions of a step are taken from: output[0] in the *)
(* standard trainer, the logits returned by the margin loss in the joint *)
(* trainer, both computed on the parameters the call starts with         *)
PredictionLogits(t, item) ==
    IF t.cls = "Trainer"
    THEN Network(t.network.w, item.x)[0]
    ELSE CombinedMarginLoss(t.criterion.weight,
                            Network(t.network.w, item.x)[1], item.label)[2]

Hits(t, batch) ==
    {i \in DOMAIN batch :
        LET logits == PredictionLogits(t, batch[i])
        IN  /\ \A k \in Classes : logits[k] <= logits[batch[i].label]
            /\ \A k \in Classes : k < batch[i].label => logits[k] < logits[batch[i].label]}

C15_NoCriterionFails ==
    [][ ( /\ ret'.op \in {"train_step", "test_step"}
          /\ trainer.cls = "Trainer"
          /\ trainer.criterion.kind = "None" )
        => /\ ret'.err = "TypeError"
           /\ ret'.val = None
           /\ EventsOf(ret', {"backward", "step"}) = {}
           /\ trainer'.network.w = trainer.network.w
           /\ trainer'.optimizer = trainer.optimizer
      ]_vars

C15_Witness ==
    /\ ret.op = "train_step"
    /\ ret.err = "TypeError"
    /\ trainer.cls = "Trainer"
    /\ trainer.criterion.kind = "None"
    /\ EventsOf(ret, {"forward"}) # {}

(* the calls of a step in order, as <<what, on what>> *)
CallOrder(r) == [i \in DOMAIN r.events |-> << r.events[i].call, r.events[i].on >>]

JointTrainOrder ==
    << << "train", "network" >>,
       << "zero_grad", "optimizer" >>, << "zero_grad", "opt_criterion" >>,
       << "forward", "network" >>, << "criterion", "output[1]" >>,
       << "backward", "loss" >>,
       << "step", "optimizer" >>, << "step", "opt_criterion" >> >>

(* C16: a joint train_step clears the gradients of both optimizers, runs  *)
(* one forward pass and one backward pass, then steps the network         *)
(* optimizer once and the loss-function optimizer once; both steps apply  *)
(* the gradient of the current batch alone, whatever calls came before,   *)
(* and no other call steps an optimizer.                                  *)
C16_OneStepPerTrainStep ==
    [][ /\ (ret'.op = "train_step" /\ trainer.cls = "MarginTrainer") =>
              LET batch  == ret'.arg
                  fwd    == MarginForward(trainer, batch)
                  losses == [i \in DOMAIN batch |-> fwd[i][1]]
                  gN     == BackwardNetwork(losses, batch)
                  gC     == BackwardCriterion(losses, batch)
              IN  /\ ret'.err = ""
                  /\ CallOrder(ret') = JointTrainOrder
                  /\ trainer'.network.grad = gN
                  /\ trainer'.criterion.grad = gC
                  /\ trainer'.optimizer =
                        SGDStep(trainer.network.w, gN, trainer.optimizer).opt
                  /\ trainer'.network.w =
                        SGDStep(trainer.network.w, gN, trainer.optimizer).param
                  /\ trainer'.opt_criterion =
                        SGDStep(trainer.criterion.weight, gC, trainer.opt_criterion).opt
                  /\ trainer'.criterion.weight =
                        SGDStep(trainer.criterion.weight, gC, trainer.opt_criterion).param
        /\ ret'.op # "train_step" => EventsOf(ret', {"backward", "step"}) = {}
      ]_vars

C16_Witness ==
    /\ IsMargin
    /\ ret.op = "train_step"
    /\ ret.err = ""
    /\ trainer.network.grad # 0
    /\ trainer.criterion.grad # 0
    /\ trainer.optimizer.momentum_buffer # trainer.network.grad
    /\ trainer.opt_criterion.momentum_buffer # trainer.criterion.grad

(* C19: the forward pass of every train_step runs with the network in     *)
(* training mode and autograd recording, the forward pass of every        *)
(* test_step with the network in evaluation mode and autograd off,        *)
(* whatever call came before; each step has one forward pass.             *)
C19_ModePerStep ==
    StepCall
    => /\ Cardinality(EventsOf(ret, {"forward"})) = 1
       /\ \A i \in EventsOf(ret, {"forward"}) :
             /\ ret.events[i].training = (ret.op = "train_step")
             /\ ret.events[i].grad_enabled = (ret.op = "train_step")
       /\ trainer.network.training = (ret.op = "train_step")

C19_Witness ==
    /\ ret.op = "test_step"
    /\ ret.err = ""
    /\ trainer.cls = "Trainer"
    /\ trainer.optimizer.momentum_buffer # 0
    /\ \E i \in EventsOf(ret, {"forward"}) : ~ret.events[i].training

---------------------------------------------------------------------------
(* The optional network schedule and the learning rate *)

HasKey(p) == "state_lr_scheduler" \in DOMAIN files[p]

(* C17: a written record has the key state_lr_scheduler exactly when the  *)
(* saving trainer has a network schedule; load_all_states reads the key   *)
(* exactly when the loading trainer has one; with the same configuration  *)
(* on both sides the load does not fail and the network schedule is the   *)
(* saved one.                                                             *)
C17_OptionalSchedule ==
    /\ [](\A p \in DOMAIN files :
             files[p] # Truncated =>
                /\ HasKey(p) = (snap[p].scheduler # None)
                /\ HasKey(p) => files[p].state_lr_scheduler = snap[p].scheduler)
    /\ [][ ( /\ ret'.op = "load_all_states"
             /\ ret'.arg \in DOMAIN files
             /\ files[ret'.arg] # Truncated )
           => /\ trainer.scheduler = None =>
                    (ret'.err = "" /\ trainer'.scheduler = None)
              /\ (trainer.scheduler # None /\ ~HasKey(ret'.arg)) =>
                    ret'.err = "KeyError"
              /\ (trainer.scheduler # None /\ HasKey(ret'.arg)) =>
                    /\ ret'.err = ""
                    /\ trainer'.scheduler = snap[ret'.arg].scheduler
         ]_vars

C17_Witness ==
    /\ ret.op = "load_all_states"
    /\ ret.err = ""
    /\ trainer.scheduler # None
    /\ trainer.scheduler.last_epoch = 1
    /\ trainer.scheduler_criterion.last_epoch = 1
    /\ HasKey(ret.arg)

(* C18: in every state of the joint trainer, after construction and any   *)
(* sequence of calls, the learning rate held by the loss-function         *)
(* optimizer is 0.01 times the multiplier at the current epoch counter of *)
(* the loss-function schedule.                                            *)
C18_LrFollowsSchedule ==
    IsMargin =>
        trainer.opt_criterion.lr = ScheduledLr(BaseLrCriterion, LrLambda(Epoch))

====
